---- MODULE Spec2Model ----
(***************************************************************************)
(* IdsWebTool (src/main.js): a WebSocket agent that locates the directory  *)
(* of "ASMP start.bat", builds a filtered ZIP of that directory and sends  *)
(* it to the connected clients.                                            *)
(*                                                                         *)
(* Values.  A JavaScript string that the code inspects character by        *)
(* character (a file name, a device name) is a sequence of one-character   *)
(* strings.  A path is the sequence of its components.  The text a child   *)
(* process prints is a sequence of tokens: a token is a path, or one of    *)
(* the white-space tokens CR and LF.  The JavaScript value null is NULL.   *)
(***************************************************************************)
EXTENDS Integers, Sequences, FiniteSets, TLC

VARIABLES
    probe,      \* SpecLocate: per known directory, the outcome its exec delivered
    checked,    \* SpecLocate: findInCommonDirs' counter `checked`
    foundPath,  \* SpecLocate: findInCommonDirs' variable `foundPath`
    cbArgs,     \* SpecLocate: the arguments `callback` was invoked with, in order
    lastMatch,  \* SpecLocate: the probe that printed a match most recently, else 0
    tree,       \* the files on disk: base directory -> folder -> listing
    adevice,    \* SpecArchive: the deviceName argument of the job under test
    archive,    \* SpecArchive: the entries of the archive once built, else NotBuilt
    readyState, \* per peer, the readyState of its WebSocket
    clients,    \* wss.clients
    nmsg,       \* the number of messages received so far
    req,        \* per message, the state of the pipeline it started
    log,        \* per message, what its pipeline has done so far, in order
    disk        \* per base directory, the content of its filtered-archive.zip

locateVars == <<probe, checked, foundPath, cbArgs, lastMatch>>
archiveVars == <<adevice, archive>>
peerVars == <<readyState, clients>>
pipeVars == <<readyState, clients, nmsg, req, log, disk>>
vars == <<probe, checked, foundPath, cbArgs, lastMatch, tree, adevice, archive,
          readyState, clients, nmsg, req, log, disk>>

----------------------------------------------------------------------------
(* JavaScript values and strings *)

NULL == <<"<null>">>

\* JavaScript truthiness of a value that is null or a string / path
Truthy(v) == v # NULL /\ v # <<>>

CR == <<"\r">>
LF == <<"\n">>

IsSpace(t) == t \in {CR, LF}

\* String.prototype.trim on a token sequence
RECURSIVE TrimStart(_)
TrimStart(s) ==
    IF s = <<>> THEN <<>>
    ELSE IF IsSpace(Head(s)) THEN TrimStart(Tail(s)) ELSE s

RECURSIVE TrimEnd(_)
TrimEnd(s) ==
    IF s = <<>> THEN <<>>
    ELSE IF IsSpace(s[Len(s)]) THEN TrimEnd(SubSeq(s, 1, Len(s) - 1)) ELSE s

Trim(s) == TrimEnd(TrimStart(s))

\* s.split("\n")[0]: the tokens before the first LF
RECURSIVE FirstLineLF(_)
FirstLineLF(s) ==
    IF s = <<>> THEN <<>>
    ELSE IF Head(s) = LF THEN <<>>
    ELSE <<Head(s)>> \o FirstLineLF(Tail(s))

\* s.split("\r\n"): the pieces between the CR LF pairs
RECURSIVE SplitCRLF(_, _)
SplitCRLF(s, cur) ==
    IF s = <<>> THEN <<cur>>
    ELSE IF Len(s) >= 2 /\ s[1] = CR /\ s[2] = LF
         THEN <<cur>> \o SplitCRLF(SubSeq(s, 3, Len(s)), <<>>)
    ELSE SplitCRLF(Tail(s), Append(cur, Head(s)))

\* Array.prototype.filter(Boolean) on an array of strings
RECURSIVE FilterBoolean(_)
FilterBoolean(a) ==
    IF a = <<>> THEN <<>>
    ELSE IF Head(a) # <<>> THEN <<Head(a)>> \o FilterBoolean(Tail(a))
    ELSE FilterBoolean(Tail(a))

Dot == <<".">>

\* path.dirname of a line of output that holds at most one path
dirname(line) ==
    IF Len(line) = 1 /\ Len(line[1]) > 1
    THEN SubSeq(line[1], 1, Len(line[1]) - 1)
    ELSE Dot

fileName == "ASMP start.bat"

\* os.homedir()
userDir == <<"C:", "Users", "u">>

----------------------------------------------------------------------------
(* ArchiveBuilder: addFilteredFilesToArchive and the rules of createAndSendZip *)

\* String(v) as String.prototype.includes applies it to its argument
JsString(v) == IF v = NULL THEN <<"n", "u", "l", "l">> ELSE v

endsWith(s, suffix) ==
    /\ Len(s) >= Len(suffix)
    /\ SubSeq(s, Len(s) - Len(suffix) + 1, Len(s)) = suffix

includes(s, search) ==
    LET t == JsString(search)
    IN  \E i \in 0..(Len(s) - Len(t)) : SubSeq(s, i + 1, i + Len(t)) = t

ExtTxt == <<".", "t", "x", "t">>
ExtNet == <<".", "n", "e", "t">>

\* the folder arguments of the three calls (lines 173-175)
FolderOut == <<"out">>
FolderTables == <<"_inputs_severin", "tables">>
FolderTemp == <<"temp">>
Folders == {FolderOut, FolderTables, FolderTemp}

\* a folder that does not exist, and a folder listing `files`
NoFolder == [exists |-> FALSE, files |-> {}]
Folder(files) == [exists |-> TRUE, files |-> files]

\* Variant: every folder is taken to exist.
existsSyncAlways(t, baseDir, folder) == TRUE

\* fs.existsSync(path.join(baseDir, folder)) and fs.readdirSync of it
existsSync(t, baseDir, folder) ==
    baseDir \in DOMAIN t /\ t[baseDir][folder].exists

readdirSync(t, baseDir, folder) == t[baseDir][folder].files

\* fs.readdirSync throws ENOENT on a path that is no directory
readdirThrows(t, baseDir, folder) ==
    ~(baseDir \in DOMAIN t /\ t[baseDir][folder].exists)

\* Whether one call throws for want of its folder: line 196 is reached only
\* past the test of line 195.
addFilteredFilesThrows(t, baseDir, folder) ==
    existsSync(t, baseDir, folder) /\ readdirThrows(t, baseDir, folder)

\* Variant: the device name is not looked at.
addFilteredFilesNoFilter(t, baseDir, folder, extension, deviceName) ==
    IF existsSync(t, baseDir, folder)
    THEN { <<folder, file>> : file \in
             { f \in readdirSync(t, baseDir, folder) : endsWith(f, extension) } }
    ELSE {}

\* The entries one call adds: the entry name is path.join(folder, file).
addFilteredFilesToArchive(t, baseDir, folder, extension, deviceName) ==
    IF existsSync(t, baseDir, folder)
    THEN { <<folder, file>> : file \in
             { f \in readdirSync(t, baseDir, folder) :
                 /\ endsWith(f, extension)
                 /\ \/ folder = FolderTemp
                    \/ /\ folder \in {FolderOut, FolderTables}
                       /\ includes(f, deviceName) } }
    ELSE {}

\* The entries of the archive createAndSendZip builds (lines 173-175).
ZipEntries(t, baseDir, deviceName) ==
    addFilteredFilesToArchive(t, baseDir, FolderOut, ExtTxt, deviceName)
    \cup addFilteredFilesToArchive(t, baseDir, FolderTables, ExtTxt, deviceName)
    \cup addFilteredFilesToArchive(t, baseDir, FolderTemp, ExtNet, deviceName)

\* Whether one of the three calls throws for want of its folder.
ZipThrows(t, baseDir) ==
    \E folder \in Folders : addFilteredFilesThrows(t, baseDir, folder)

NotBuilt == {<<<<"-">>, <<"-">>>>}

\* the job under test ended in the catch of line 179
Threw == {<<<<"!">>, <<"!">>>>}

\* File names and device names the archive specification draws from.
NameD1Txt == <<"D", "1", ".", "t", "x", "t">>
NameNullTxt == <<"n", "u", "l", "l", ".", "t", "x", "t">>
NameD1Net == <<"D", "1", ".", "n", "e", "t">>
NameXNet == <<"x", ".", "n", "e", "t">>
FileNames == {NameD1Txt, NameNullTxt, NameD1Net, NameXNet}

DevD1 == <<"D", "1">>
DevD == <<"D">>
DevDotT == <<"1", ".", "t">>
DevD2 == <<"D", "2">>
DeviceNames == {DevD1, DevD, DevDotT, DevD2}

BaseA == <<"C:", "Program Files", "ASMP">>
BaseB == userDir \o <<"Desktop">>

Listings == {NoFolder} \cup {Folder(fs) : fs \in SUBSET FileNames}

\* The files of the two installations the pipeline runs against.
Tree0 ==
    (BaseA :> (FolderOut :> Folder({NameD1Txt, NameNullTxt, NameD1Net})
               @@ FolderTables :> Folder({NameD1Txt})
               @@ FolderTemp :> Folder({NameXNet, NameD1Txt})))
    @@
    (BaseB :> (FolderOut :> NoFolder
               @@ FolderTables :> Folder({NameNullTxt})
               @@ FolderTemp :> Folder({NameD1Net})))


----------------------------------------------------------------------------
(* DirectoryLocator: findInCommonDirs *)

getCommonDirectories ==
    << userDir \o <<"Desktop">>,
       userDir \o <<"Downloads">>,
       userDir \o <<"Documents">>,
       <<"C:", "Program Files">>,
       <<"C:", "Program Files (x86)">>,
       <<"C:">> >>

directories == getCommonDirectories

DirIdx == 1..Len(directories)

\* a probe whose exec has not called back yet
Pending == [done |-> FALSE, error |-> FALSE, stdout |-> <<>>]

\* What `where /r dir fileName` can hand to its callback: an error flag and
\* the text printed.
ProbeOutputs(dir) ==
    LET here == dir \o <<fileName>>
        sub  == dir \o <<"ASMP", fileName>>
    IN  { [error |-> TRUE,  stdout |-> <<>>],
          [error |-> TRUE,  stdout |-> <<here, CR, LF>>],
          [error |-> FALSE, stdout |-> <<>>],
          [error |-> FALSE, stdout |-> <<CR, LF>>],
          [error |-> FALSE, stdout |-> <<here, CR, LF>>],
          [error |-> FALSE, stdout |-> <<sub, CR, LF, here, CR, LF>>] }

\* Variant: the join compares with one more than the number of probes.
ExecCallbackOffByOne(st, error, stdout) ==
    LET c == st.checked + 1
        f == IF ~error /\ Trim(stdout) # <<>>
             THEN dirname(Trim(FirstLineLF(stdout)))
             ELSE st.foundPath
    IN  [checked |-> c, foundPath |-> f, call |-> (c = Len(directories) + 1)]

\* Variant: the first match is kept.
ExecCallbackFirstWins(st, error, stdout) ==
    LET c == st.checked + 1
        f == IF ~error /\ Trim(stdout) # <<>> /\ st.foundPath = NULL
             THEN dirname(Trim(FirstLineLF(stdout)))
             ELSE st.foundPath
    IN  [checked |-> c, foundPath |-> f, call |-> (c = Len(directories))]

\* Variant: a probe that failed is not counted.
ExecCallbackErrorUncounted(st, error, stdout) ==
    LET c == IF error THEN st.checked ELSE st.checked + 1
        f == IF ~error /\ Trim(stdout) # <<>>
             THEN dirname(Trim(FirstLineLF(stdout)))
             ELSE st.foundPath
    IN  [checked |-> c, foundPath |-> f, call |-> (c = Len(directories))]

\* Variant: a probe without a match clears an earlier match.
ExecCallbackClear(st, error, stdout) ==
    LET c == st.checked + 1
        f == IF ~error /\ Trim(stdout) # <<>>
             THEN dirname(Trim(FirstLineLF(stdout)))
             ELSE NULL
    IN  [checked |-> c, foundPath |-> f, call |-> (c = Len(directories))]

\* The body of the exec callback (lines 222-226) on the closure state
\* st = [checked, foundPath]; `call` says whether callback(foundPath) runs.
ExecCallback(st, error, stdout) ==
    LET c == st.checked + 1
        f == IF ~error /\ Trim(stdout) # <<>>
             THEN dirname(Trim(FirstLineLF(stdout)))
             ELSE st.foundPath
    IN  [checked |-> c, foundPath |-> f, call |-> (c = Len(directories))]


----------------------------------------------------------------------------
(* MessageRouter and DeliveryChannel: the pipeline one message starts *)

\* Bounds: the peers that may connect, and the messages received in a run.
NumPeers == 2
MaxMsgs == 2

Peers == 1..NumPeers
Reqs == 1..MaxMsgs

\* the archive file of a base directory: who wrote it last (0: nobody, it is
\* empty), the entries written, and the blocks of an earlier, longer write
\* that lie beyond the end of what was written last
EmptyFile == [by |-> 0, entries |-> {}, over |-> 0]

\* The length of an archive in blocks: one per entry, and its end record.
ZipSize(entries) == Cardinality(entries) + 1

FileSize(f) == IF f.by = 0 THEN 0 ELSE ZipSize(f.entries) + f.over

\* The write stream of job r (line 157) has a descriptor and an offset of
\* its own: piped into it (line 170), the archive is written from offset 0
\* over what the file holds, and what lies beyond its end stays.
WriteFile(f, r, entries) ==
    [by |-> r, entries |-> entries,
     over |-> IF FileSize(f) > ZipSize(entries)
              THEN FileSize(f) - ZipSize(entries) ELSE 0]

\* the pipeline of a message that has not arrived; anyMatch and scan are
\* history: whether a probe has printed a match, and what the scan printed
NoReq ==
    [ws |-> 0, kind |-> "none", pc |-> "idle", checked |-> 0, foundPath |-> NULL,
     baseDir |-> NULL, deviceName |-> NULL, entries |-> {},
     written |-> FALSE, settled |-> "none", closed |-> FALSE,
     anyMatch |-> FALSE, scan |-> "none"]

PipeIdle ==
    /\ readyState = [p \in Peers |-> "CONNECTING"]
    /\ clients = {}
    /\ nmsg = 0
    /\ req = [r \in Reqs |-> NoReq]
    /\ log = [r \in Reqs |-> <<>>]
    /\ disk = [b \in {BaseA, BaseB} |-> EmptyFile]

\* What a peer can send.  json is what JSON.parse makes of the text: it
\* throws ("malformed"), returns null ("null") or returns an object whose
\* fields follow; an absent field is "undefined" / NULL.
Obj(type, filePath, action, deviceName) ==
    [json |-> "object", type |-> type, filePath |-> filePath,
     action |-> action, deviceName |-> deviceName]

Payloads ==
    { [json |-> "malformed", type |-> "undefined", filePath |-> NULL,
       action |-> "undefined", deviceName |-> NULL],
      [json |-> "null", type |-> "undefined", filePath |-> NULL,
       action |-> "undefined", deviceName |-> NULL],
      Obj("undefined", NULL, "undefined", NULL),
      Obj("undefined", NULL, "sendDeviceName", <<>>) }
    \cup { Obj("filePath", b, "undefined", NULL) : b \in {BaseA, BaseB} }
    \cup { Obj("undefined", NULL, "sendDeviceName", d) : d \in {DevD1} }

\* Events of a pipeline's log.
SendEv(to, type, arg) == [e |-> "send", to |-> to, type |-> type, arg |-> arg]
ZipEv(to, buf) == [e |-> "zip", to |-> to, type |-> "binary", arg |-> buf]
ZipFailEv(to, buf) == [e |-> "zip", to |-> to, type |-> "failed", arg |-> buf]
JobEv(baseDir, deviceName) ==
    [e |-> "job", to |-> 0, type |-> "createAndSendZip",
     arg |-> <<baseDir, deviceName>>]
CallEv(what) == [e |-> "call", to |-> 0, type |-> what, arg |-> NULL]

\* ws.send(JSON.stringify(...)) by the pipeline S = [q, lg]
Send(S, to, type, arg) == [S EXCEPT !.lg = Append(@, SendEv(to, type, arg))]

\* createAndSendZip up to its await (lines 154-177).  ioError: a read of
\* lines 196-200 throws for a reason other than a missing folder; the catch
\* of line 179 returns the failure.
createAndSendZip(S, baseDir, deviceName, ioError) ==
    LET S1 == [S EXCEPT !.lg = Append(@, JobEv(baseDir, deviceName)),
                        !.q.baseDir = baseDir, !.q.deviceName = deviceName]
    IN  IF ioError \/ ZipThrows(tree, baseDir)
        THEN [S1 EXCEPT !.q.pc = "failed", !.q.settled = "threw"]
        ELSE [S1 EXCEPT !.q.pc = "finalizing", !.q.settled = "pending",
                        !.q.entries = ZipEntries(tree, baseDir, deviceName)]

\* findFileOnDisk (lines 252-254): the scan is started
findFileOnDisk(S) ==
    [S EXCEPT !.lg = Append(@, CallEv("findFileOnDisk")), !.q.pc = "scanning"]

\* Variant: no fall-back to the full scan.
LocateCallbackNoScan(S, directory, ioError) ==
    IF Truthy(directory)
    THEN createAndSendZip(Send(S, S.q.ws, "fileFound", directory),
                          directory, S.q.deviceName, ioError)
    ELSE [Send(S, S.q.ws, "fileNotFound", NULL) EXCEPT !.q.pc = "notFound"]

\* Variant: the job is started before fileFound is sent.
LocateCallbackJobFirst(S, directory, ioError) ==
    IF Truthy(directory)
    THEN Send(createAndSendZip(S, directory, S.q.deviceName, ioError),
              S.q.ws, "fileFound", directory)
    ELSE findFileOnDisk(S)

\* the callback handleDeviceNameAction gives findInCommonDirs (lines 130-144)
LocateCallback(S, directory, ioError) ==
    IF Truthy(directory)
    THEN createAndSendZip(Send(S, S.q.ws, "fileFound", directory),
                          directory, S.q.deviceName, ioError)
    ELSE findFileOnDisk(S)

\* the callback handleDeviceNameAction gives findFileOnDisk (lines 135-142)
ScanCallback(S, fullPath, ioError) ==
    IF Truthy(fullPath)
    THEN createAndSendZip(Send(S, S.q.ws, "fileFound", fullPath),
                          fullPath, S.q.deviceName, ioError)
    ELSE [Send(S, S.q.ws, "fileNotFound", NULL) EXCEPT !.q.pc = "notFound"]

\* handleDeviceNameAction (lines 128-145): findInCommonDirs starts its probes
handleDeviceNameAction(S, deviceName) ==
    [S EXCEPT !.lg = Append(@, CallEv("findInCommonDirs")),
              !.q.pc = "probing", !.q.deviceName = deviceName,
              !.q.checked = 0, !.q.foundPath = NULL]

\* Variant: the catch block only logs.
catchErrorSilent(S) == [S EXCEPT !.q.pc = "replied"]

\* the catch block of handleWebSocketMessage (lines 117-120)
catchError(S) == [Send(S, S.q.ws, "error", NULL) EXCEPT !.q.pc = "replied"]

\* handleWebSocketMessage (lines 106-121) up to its first await: JSON.parse
\* throws on text that is no JSON, and data.type throws on null
handleWebSocketMessage(S, m, ioError) ==
    IF m.json = "malformed"
    THEN catchError([S EXCEPT !.q.kind = "malformed"])
    ELSE IF m.json = "null"
    THEN catchError([S EXCEPT !.q.kind = "null"])
    ELSE IF m.type = "filePath"
    THEN LET S1 == createAndSendZip([S EXCEPT !.q.kind = "filePath"],
                                    m.filePath, NULL, ioError)
         IN  IF S1.q.pc = "failed" THEN Send(S1, S.q.ws, "error", NULL) ELSE S1
    ELSE IF m.action = "sendDeviceName" /\ Truthy(m.deviceName)
    THEN handleDeviceNameAction([S EXCEPT !.q.kind = "device"], m.deviceName)
    ELSE [S EXCEPT !.q.kind = "ignored", !.q.pc = "dropped"]

\* Variant: opening one output file empties every output file.
TruncateEvery(d, S) ==
    IF S.q.baseDir \in DOMAIN d /\ S.q.settled \in {"pending", "threw"}
    THEN [b \in DOMAIN d |-> EmptyFile]
    ELSE d

\* the file createAndSendZip opens for writing (line 157) is emptied
Truncate(d, S) ==
    IF S.q.baseDir \in DOMAIN d /\ S.q.settled \in {"pending", "threw"}
    THEN [d EXCEPT ![S.q.baseDir] = EmptyFile]
    ELSE d

\* client.send(zipBuffer) (line 165) returns at once; the write it starts
\* reaches the peer, or fails later and is reported to the peer's 'error'
\* handler (line 97).  fails: the peers whose write fails.
clientSend(p, buf, fails) ==
    IF p \in fails THEN ZipFailEv(p, buf) ELSE ZipEv(p, buf)

\* Variant: the loop does not test readyState.
RECURSIVE BroadcastAll(_, _, _, _, _)
BroadcastAll(p, cl, rs, buf, fails) ==
    IF p > NumPeers THEN <<>>
    ELSE (IF p \in cl THEN <<clientSend(p, buf, fails)>> ELSE <<>>)
         \o BroadcastAll(p + 1, cl, rs, buf, fails)

\* Variant: the loop ends at the first write that fails.
RECURSIVE BroadcastAbort(_, _, _, _, _)
BroadcastAbort(p, cl, rs, buf, fails) ==
    IF p > NumPeers THEN <<>>
    ELSE IF p \in cl /\ rs[p] = "OPEN"
         THEN IF p \in fails THEN <<ZipFailEv(p, buf)>>
              ELSE <<ZipEv(p, buf)>> \o BroadcastAbort(p + 1, cl, rs, buf, fails)
         ELSE BroadcastAbort(p + 1, cl, rs, buf, fails)

\* the loop of lines 164-166: the sends, in the order of the peers
RECURSIVE Broadcast(_, _, _, _, _)
Broadcast(p, cl, rs, buf, fails) ==
    IF p > NumPeers THEN <<>>
    ELSE (IF p \in cl /\ rs[p] = "OPEN" THEN <<clientSend(p, buf, fails)>> ELSE <<>>)
         \o Broadcast(p + 1, cl, rs, buf, fails)

\* What the full scan's PowerShell can hand to its callback.
ScanOutputs ==
    { [error |-> TRUE,  stdout |-> <<>>],
      [error |-> TRUE,  stdout |-> <<BaseB \o <<fileName>>, CR, LF>>],
      [error |-> FALSE, stdout |-> <<>>],
      [error |-> FALSE, stdout |-> <<CR, LF>>],
      [error |-> FALSE, stdout |-> <<BaseB \o <<fileName>>, CR, LF>>],
      [error |-> FALSE, stdout |-> <<BaseB \o <<fileName>>, CR, LF,
                                     BaseA \o <<fileName>>, CR, LF>>] }

\* Variant: the error argument is not tested.
ScanResultIgnoreError(error, stdout) ==
    LET files == FilterBoolean(SplitCRLF(Trim(stdout), <<>>))
    IN  IF Len(files) > 0 THEN dirname(files[1]) ELSE NULL

\* The body of findFileOnDisk's exec callback (lines 255-261): the argument
\* it gives its callback.
ScanResult(error, stdout) ==
    IF error THEN NULL
    ELSE LET files == FilterBoolean(SplitCRLF(Trim(stdout), <<>>))
         IN  IF Len(files) > 0 THEN dirname(files[1]) ELSE NULL

\* What a known-directory probe hands to its callback in the pipeline: the
\* outputs of the probes that print nothing or whose first match lies in
\* the installation BaseA.
PipeProbeOutputs ==
    { o \in UNION { ProbeOutputs(directories[i]) : i \in DirIdx } :
        Trim(o.stdout) = <<>>
        \/ dirname(Trim(FirstLineLF(o.stdout))) = BaseA }

\* What an output says, read off the output itself: whether the command
\* succeeded and printed a path, and the directory of the first path printed.
HasPath(stdout) == \E k \in DOMAIN stdout : ~IsSpace(stdout[k])

Yields(o) == ~o.error /\ HasPath(o.stdout)

FirstPath(stdout) ==
    stdout[CHOOSE k \in DOMAIN stdout :
              ~IsSpace(stdout[k]) /\ \A j \in 1..(k - 1) : IsSpace(stdout[j])]

YieldDir(o) == SubSeq(FirstPath(o.stdout), 1, Len(FirstPath(o.stdout)) - 1)

ScanClass(o) ==
    IF o.error THEN "error" ELSE IF HasPath(o.stdout) THEN "path" ELSE "nopath"

(* Peers *)

Connect(p) ==
    /\ readyState[p] = "CONNECTING"
    /\ readyState' = [readyState EXCEPT ![p] = "OPEN"]
    /\ clients' = clients \cup {p}
    /\ UNCHANGED <<nmsg, req, log, disk, tree, locateVars, archiveVars>>

BeginClose(p) ==
    /\ readyState[p] = "OPEN"
    /\ readyState' = [readyState EXCEPT ![p] = "CLOSING"]
    /\ UNCHANGED <<clients, nmsg, req, log, disk, tree, locateVars, archiveVars>>

Closed(p) ==
    /\ readyState[p] = "CLOSING"
    /\ readyState' = [readyState EXCEPT ![p] = "CLOSED"]
    /\ clients' = clients \ {p}
    /\ UNCHANGED <<nmsg, req, log, disk, tree, locateVars, archiveVars>>

(* The handlers *)

Commit(r, S) ==
    /\ req' = [req EXCEPT ![r] = S.q]
    /\ log' = [log EXCEPT ![r] = S.lg]

\* ws.on('message'): peer p's message m arrives
OnMessage(p, m, ioError) ==
    /\ readyState[p] = "OPEN"
    /\ nmsg < MaxMsgs
    /\ nmsg' = nmsg + 1
    /\ LET r == nmsg + 1
           S == handleWebSocketMessage(
                    [q |-> [req[r] EXCEPT !.ws = p], lg |-> log[r]], m, ioError)
       IN  /\ Commit(r, S)
           /\ disk' = Truncate(disk, S)
    /\ UNCHANGED <<peerVars, tree, locateVars, archiveVars>>

\* one of the six exec callbacks of findInCommonDirs runs (lines 221-227);
\* the callbacks still to come are Len(directories) - checked
ExecDone(r, o, ioError) ==
    /\ req[r].kind = "device"
    /\ req[r].checked < Len(directories)
    /\ LET st == ExecCallback([checked |-> req[r].checked,
                               foundPath |-> req[r].foundPath],
                              o.error, o.stdout)
           S0 == [q |-> [req[r] EXCEPT !.checked = st.checked,
                                       !.foundPath = st.foundPath,
                                       !.anyMatch = @ \/ Yields(o)],
                  lg |-> log[r]]
           S == IF st.call THEN LocateCallback(S0, st.foundPath, ioError) ELSE S0
       IN  /\ Commit(r, S)
           /\ disk' = Truncate(disk, S)
    /\ UNCHANGED <<peerVars, nmsg, tree, locateVars, archiveVars>>

\* the exec callback of findFileOnDisk runs (lines 254-262)
ScanDone(r, o, ioError) ==
    /\ req[r].pc = "scanning"
    /\ LET S == ScanCallback([q |-> [req[r] EXCEPT !.scan = ScanClass(o)],
                              lg |-> log[r]],
                             ScanResult(o.error, o.stdout), ioError)
       IN  /\ Commit(r, S)
           /\ disk' = Truncate(disk, S)
    /\ UNCHANGED <<peerVars, nmsg, tree, locateVars, archiveVars>>

\* the promise of archive.finalize() resolves, once the archive has handed
\* all its data to the output file: createAndSendZip returns its success
\* (line 178) and, for a direct path, line 113 runs
FinalizeResolved(r) ==
    /\ req[r].pc = "finalizing"
    /\ req[r].settled = "pending"
    /\ LET S0 == [q |-> [req[r] EXCEPT !.settled = "resolved", !.written = TRUE],
                  lg |-> log[r]]
           S == IF req[r].kind = "filePath"
                THEN Send(S0, req[r].ws, "success", NULL) ELSE S0
       IN  Commit(r, S)
    /\ disk' = [disk EXCEPT ![req[r].baseDir] = WriteFile(@, r, req[r].entries)]
    /\ UNCHANGED <<peerVars, nmsg, tree, locateVars, archiveVars>>

\* the promise of archive.finalize() rejects: the catch of line 179 returns
\* the failure and, for a direct path, line 113 runs; the output file is
\* never closed
FinalizeRejected(r) ==
    /\ req[r].pc = "finalizing"
    /\ req[r].settled = "pending"
    /\ LET S0 == [q |-> [req[r] EXCEPT !.settled = "rejected", !.pc = "failed"],
                  lg |-> log[r]]
           S == IF req[r].kind = "filePath"
                THEN Send(S0, req[r].ws, "error", NULL) ELSE S0
       IN  Commit(r, S)
    /\ UNCHANGED <<peerVars, nmsg, disk, tree, locateVars, archiveVars>>

\* Variant: the output closes without the archive having ended.
OutputClosedEarly(r, fails) ==
    /\ req[r].pc = "finalizing"
    /\ ~req[r].closed
    /\ LET zipBuffer == disk[req[r].baseDir]
       IN  /\ log' = [log EXCEPT ![r] = @ \o Broadcast(1, clients, readyState,
                                                      zipBuffer, fails)]
           /\ req' = [req EXCEPT ![r].closed = TRUE, ![r].pc = "sent"]
    /\ UNCHANGED <<peerVars, nmsg, disk, tree, locateVars, archiveVars>>

\* output.on('close') (lines 162-168), after the archive has ended: read the
\* file back and broadcast it; fails: the peers the write to which fails
OutputClosed(r, fails) ==
    /\ req[r].pc = "finalizing"
    /\ req[r].written
    /\ ~req[r].closed
    /\ LET zipBuffer == disk[req[r].baseDir]
       IN  /\ log' = [log EXCEPT ![r] = @ \o Broadcast(1, clients, readyState,
                                                      zipBuffer, fails)]
           /\ req' = [req EXCEPT ![r].closed = TRUE, ![r].pc = "sent"]
    /\ UNCHANGED <<peerVars, nmsg, disk, tree, locateVars, archiveVars>>

Init ==
    /\ PipeIdle
    /\ tree = Tree0
    /\ adevice = NULL
    /\ archive = NotBuilt
    /\ probe = [i \in DirIdx |-> Pending]
    /\ checked = 0
    /\ foundPath = NULL
    /\ cbArgs = <<>>
    /\ lastMatch = 0

Next ==
    \/ \E p \in Peers : Connect(p)
    \/ \E p \in Peers : BeginClose(p)
    \/ \E p \in Peers : Closed(p)
    \/ \E p \in Peers : \E m \in Payloads : \E io \in BOOLEAN : OnMessage(p, m, io)
    \/ \E r \in Reqs : \E o \in PipeProbeOutputs : \E io \in BOOLEAN : ExecDone(r, o, io)
    \/ \E r \in Reqs : \E o \in ScanOutputs : \E io \in BOOLEAN : ScanDone(r, o, io)
    \/ \E r \in Reqs : FinalizeResolved(r)
    \/ \E r \in Reqs : FinalizeRejected(r)
    \/ \E r \in Reqs : \E fails \in SUBSET Peers : OutputClosed(r, fails)

Spec == Init /\ [][Next]_vars

\* Every started probe, scan and finalize completes.
FairSpec ==
    /\ Spec
    /\ WF_vars(\E r \in Reqs : \E o \in PipeProbeOutputs : \E io \in BOOLEAN :
                  ExecDone(r, o, io))
    /\ WF_vars(\E r \in Reqs : \E o \in ScanOutputs : \E io \in BOOLEAN :
                  ScanDone(r, o, io))
    /\ WF_vars(\E r \in Reqs : FinalizeResolved(r) \/ FinalizeRejected(r))

----------------------------------------------------------------------------
(* One Locate call in isolation *)

\* The state right after findInCommonDirs has started its six probes.
InitLocate ==
    /\ probe = [i \in DirIdx |-> Pending]
    /\ checked = 0
    /\ foundPath = NULL
    /\ cbArgs = <<>>
    /\ lastMatch = 0
    /\ tree = Tree0
    /\ adevice = NULL
    /\ archive = NotBuilt
    /\ PipeIdle

\* The probe of directory i completes with output o.
ProbeDone(i, o) ==
    /\ ~probe[i].done
    /\ LET st == ExecCallback([checked |-> checked, foundPath |-> foundPath],
                              o.error, o.stdout)
       IN  /\ checked' = st.checked
           /\ foundPath' = st.foundPath
           /\ cbArgs' = IF st.call THEN Append(cbArgs, st.foundPath) ELSE cbArgs
    /\ lastMatch' = IF Yields(o) THEN i ELSE lastMatch
    /\ probe' = [probe EXCEPT ![i] = [done |-> TRUE, error |-> o.error,
                                      stdout |-> o.stdout]]
    /\ UNCHANGED <<tree, archiveVars, pipeVars>>

NextLocate ==
    \E i \in DirIdx : \E o \in ProbeOutputs(directories[i]) : ProbeDone(i, o)

SpecLocate == InitLocate /\ [][NextLocate]_vars

----------------------------------------------------------------------------
(* One archive job in isolation *)

\* One job against BaseA, for every choice of files and of device name
\* (null, the device name of a direct path, included).
InitArchive ==
    /\ tree \in { (BaseA :> (FolderOut :> o @@ FolderTables :> i @@ FolderTemp :> t)) :
                    o \in Listings, i \in Listings, t \in Listings }
    /\ adevice \in DeviceNames \cup {NULL}
    /\ archive = NotBuilt
    /\ probe = [i \in DirIdx |-> Pending]
    /\ checked = 0
    /\ foundPath = NULL
    /\ cbArgs = <<>>
    /\ lastMatch = 0
    /\ PipeIdle

BuildArchive ==
    /\ archive = NotBuilt
    /\ archive' = IF ZipThrows(tree, BaseA) THEN Threw
                   ELSE ZipEntries(tree, BaseA, adevice)
    /\ UNCHANGED <<tree, adevice, locateVars, pipeVars>>

NextArchive == BuildArchive

SpecArchive == InitArchive /\ [][NextArchive]_vars

----------------------------------------------------------------------------
(* Properties *)

IsPrefix(a, b) == Len(a) <= Len(b) /\ SubSeq(b, 1, Len(a)) = a

\* the positions of pipeline r's log that hold an event of this kind
Events(r, e, type) ==
    { k \in DOMAIN log[r] : log[r][k].e = e /\ log[r][k].type = type }

Replies(r, type) == Events(r, "send", type)
Zips(r) == Events(r, "zip", "binary")
Jobs(r) == Events(r, "job", "createAndSendZip")
Scans(r) == Events(r, "call", "findFileOnDisk")

(* SpecLocate *)

Matching == { i \in DirIdx : probe[i].done /\ Yields(probe[i]) }
AllDone == \A i \in DirIdx : probe[i].done

C13_LastMatchWins ==
    /\ lastMatch # 0 => foundPath = YieldDir(probe[lastMatch])
    /\ (AllDone /\ Cardinality(Matching) >= 2) =>
          cbArgs = <<YieldDir(probe[lastMatch])>>

C13_Witness ==
    /\ AllDone
    /\ Matching = {1, 4}
    /\ lastMatch = 4
    /\ cbArgs = <<YieldDir(probe[4])>>
    /\ cbArgs # <<YieldDir(probe[1])>>
    /\ probe[6].error

\* C14: the callback is invoked at most once, never before all six probes
\* have completed and once when they have; a probe that failed counts as
\* completed without a match, and the callback is given a directory or null,
\* never an error.
C14_CallbackOnceAfterAll ==
    /\ checked = Cardinality({ i \in DirIdx : probe[i].done })
    /\ Len(cbArgs) = IF AllDone THEN 1 ELSE 0
    /\ \A k \in DOMAIN cbArgs :
         /\ Matching = {} => cbArgs[k] = NULL
         /\ Matching # {} => \E i \in Matching : cbArgs[k] = YieldDir(probe[i])

C14_Witness ==
    /\ AllDone
    /\ \A i \in DirIdx : probe[i].error
    /\ \E i \in DirIdx : HasPath(probe[i].stdout)
    /\ cbArgs = <<NULL>>

(* Spec *)

\* C2: for a device request the full scan is started at most once; it is
\* started exactly when all six probes have completed and none printed a
\* match, never earlier, and never when a probe printed a match; no other
\* message starts it.
C2_ScanOnlyAfterAllProbesMiss ==
    \A r \in Reqs :
        /\ Cardinality(Scans(r)) <= 1
        /\ req[r].kind # "device" => Scans(r) = {}
        /\ req[r].kind = "device" =>
             /\ Scans(r) # {} => req[r].checked = Len(directories) /\ ~req[r].anyMatch
             /\ (req[r].checked = Len(directories) /\ ~req[r].anyMatch) => Scans(r) # {}
             /\ req[r].anyMatch => Scans(r) = {}

C2_Witness ==
    \E r, r2 \in Reqs :
        /\ req[r].kind = "device" /\ req[r].checked = Len(directories)
        /\ ~req[r].anyMatch /\ Cardinality(Scans(r)) = 1
        /\ req[r2].kind = "device" /\ req[r2].checked = Len(directories)
        /\ req[r2].anyMatch /\ Scans(r2) = {}

(* SpecArchive *)

HasSuffix(f, ext) == \E k \in 0..Len(f) : f = SubSeq(f, 1, k) \o ext
Contains(f, d) == \E a \in 0..Len(f) : \E b \in a..Len(f) : SubSeq(f, a + 1, b) = d

FilesIn(folder) ==
    IF tree[BaseA][folder].exists THEN tree[BaseA][folder].files ELSE {}

\* the archive of §8 for device identifier d
DeviceArchive(d) ==
    { <<FolderOut, f>> : f \in { g \in FilesIn(FolderOut) :
                                   HasSuffix(g, ExtTxt) /\ Contains(g, d) } }
    \cup { <<FolderTables, f>> : f \in { g \in FilesIn(FolderTables) :
                                   HasSuffix(g, ExtTxt) /\ Contains(g, d) } }
    \cup { <<FolderTemp, f>> : f \in { g \in FilesIn(FolderTemp) :
                                   HasSuffix(g, ExtNet) } }

\* C3: for a non-empty device identifier d the entries of the archive are
\* exactly the .txt files of out/ and of _inputs_severin/tables/ whose name
\* contains d, and all the .net files of temp/.
C3_DeviceScopedEntries ==
    (archive # NotBuilt /\ adevice # NULL /\ adevice # <<>>) =>
        archive = DeviceArchive(adevice)

C3_Witness ==
    /\ archive # NotBuilt
    /\ adevice = DevD1
    /\ <<FolderOut, NameD1Txt>> \in archive
    /\ NameNullTxt \in FilesIn(FolderOut) /\ <<FolderOut, NameNullTxt>> \notin archive
    /\ NameD1Net \in FilesIn(FolderOut) /\ <<FolderOut, NameD1Net>> \notin archive
    /\ <<FolderTables, NameD1Txt>> \in archive
    /\ <<FolderTemp, NameXNet>> \in archive
    /\ NameD1Txt \in FilesIn(FolderTemp) /\ <<FolderTemp, NameD1Txt>> \notin archive

\* C12: a job whose base directory lacks one or more of the three folders
\* does not fail for it: it adds no entry for a missing folder and the
\* entries of the folders that exist are added as usual (the matching .txt
\* files of out/ and _inputs_severin/tables/, every .net file of temp/).
C12_MissingFolderSkipped ==
    (archive # NotBuilt /\ \E folder \in Folders : ~tree[BaseA][folder].exists) =>
        /\ archive # Threw
        /\ \A folder \in Folders :
             ~tree[BaseA][folder].exists => \A en \in archive : en[1] # folder
        /\ \A g \in FilesIn(FolderTemp) :
             HasSuffix(g, ExtNet) => <<FolderTemp, g>> \in archive
        /\ adevice # NULL => archive = DeviceArchive(adevice)

C12_Witness ==
    /\ archive \notin {NotBuilt, Threw}
    /\ adevice = DevD1
    /\ ~tree[BaseA][FolderOut].exists
    /\ tree[BaseA][FolderTables].exists /\ <<FolderTables, NameD1Txt>> \in archive
    /\ tree[BaseA][FolderTemp].exists /\ <<FolderTemp, NameXNet>> \in archive
    /\ \A en \in archive : en[1] # FolderOut

(* Spec *)

\* C4: a job whose device identifier is null (every direct-path job) or
\* empty holds no entry of out/ or _inputs_severin/tables/, whatever the file
\* names there, and every .net file of temp/.
C4_NullFilterAddsNothing ==
    \A r \in Reqs :
        (req[r].pc \in {"finalizing", "sent"} /\ req[r].deviceName \in {NULL, <<>>}) =>
            /\ \A en \in req[r].entries : en[1] = FolderTemp
            /\ \A f \in tree[req[r].baseDir][FolderTemp].files :
                 HasSuffix(f, ExtNet) => <<FolderTemp, f>> \in req[r].entries

\* the events pipeline r's log gains in a step
Gained(r) == SubSeq(log'[r], Len(log[r]) + 1, Len(log'[r]))

\* C5: the step that broadcasts a completed archive sends one and the same
\* payload exactly once to every peer that is open at that time, the
\* originating peer included, and nothing to any other peer.
C5_BroadcastToOpenPeers ==
    [][\A r \in Reqs :
         (~req[r].closed /\ req'[r].closed) =>
            LET new == Gained(r)
            IN  /\ \A k \in DOMAIN new : new[k].e = "zip" /\ new[k].arg = disk[req[r].baseDir]
                /\ \A p \in Peers :
                     Cardinality({ k \in DOMAIN new : new[k].to = p })
                       = IF readyState[p] = "OPEN" THEN 1 ELSE 0]_vars

C5_Witness ==
    \E r \in Reqs : \E p \in Peers :
        /\ req[r].closed
        /\ p # req[r].ws
        /\ readyState[req[r].ws] \in {"CLOSING", "CLOSED"}
        /\ \E k \in Zips(r) : log[r][k].to = p
        /\ \A k \in Zips(r) : log[r][k].to # req[r].ws

\* C6: a payload that does not parse produces one error reply to the sender
\* and nothing else: no locate, no scan, no job, no file written, no
\* broadcast.
C6_MalformedRepliesOnce ==
    \A r \in Reqs :
        req[r].kind = "malformed" =>
            /\ log[r] = <<SendEv(req[r].ws, "error", NULL)>>
            /\ req[r].checked = 0 /\ req[r].scan = "none"
            /\ req[r].baseDir = NULL
            /\ \A b \in DOMAIN disk : disk[b].by # r

C6_Witness ==
    \E r, r2 \in Reqs :
        /\ req[r].kind = "malformed" /\ Len(log[r]) = 1
        /\ req[r2].pc = "sent" /\ Zips(r2) # {}

\* C7: a failed build, in either variant, sends the originating peer exactly
\* one error status, sends no other peer anything and broadcasts nothing.
C7_FailureReported ==
    \A r \in Reqs :
        req[r].pc = "failed" =>
            /\ Cardinality(Replies(r, "error")) = 1
            /\ \A k \in DOMAIN log[r] :
                 log[r][k].e \in {"send", "zip"} => log[r][k].to = req[r].ws
            /\ Zips(r) = {}

\* C8: a build that completed, in either variant, has broadcast the archive
\* and has sent the originating peer a success status.
C8_SuccessReported ==
    \A r \in Reqs :
        req[r].pc = "sent" =>
            \E k \in Replies(r, "success") : log[r][k].to = req[r].ws

\* C9: a device request whose probes all completed without a match and whose
\* full scan failed or printed no path sends the originating peer exactly one
\* fileNotFound and no fileFound, builds no job and broadcasts nothing.
C9_NotFound ==
    \A r \in Reqs :
        (/\ req[r].kind = "device"
         /\ req[r].checked = Len(directories) /\ ~req[r].anyMatch
         /\ req[r].scan \in {"error", "nopath"}) =>
            /\ Cardinality(Replies(r, "fileNotFound")) = 1
            /\ \A k \in Replies(r, "fileNotFound") : log[r][k].to = req[r].ws
            /\ Replies(r, "fileFound") = {}
            /\ Jobs(r) = {} /\ Zips(r) = {}
            /\ req[r].pc = "notFound"
            /\ \A b \in DOMAIN disk : disk[b].by # r

C9_Witness ==
    \E r, r2 \in Reqs :
        /\ req[r].kind = "device" /\ req[r].scan = "error"
        /\ Cardinality(Replies(r, "fileNotFound")) = 1
        /\ req[r2].kind = "device" /\ req[r2].scan = "nopath"
        /\ Cardinality(Replies(r2, "fileNotFound")) = 1

\* C11: a payload that parses but is neither a direct-path message nor a
\* device request with a name is ignored, whatever value it parses to (null
\* included): its pipeline does nothing, sends no reply to any peer, starts
\* no locate and no job, writes no file and broadcasts nothing.
C11_UnrecognizedIgnored ==
    \A r \in Reqs :
        req[r].kind \in {"ignored", "null"} =>
            /\ log[r] = <<>>
            /\ req[r].checked = 0 /\ req[r].scan = "none"
            /\ req[r].baseDir = NULL
            /\ \A b \in DOMAIN disk : disk[b].by # r

\* the locate of device request r has succeeded, by a probe or by the scan
Located(r) ==
    /\ req[r].kind = "device"
    /\ \/ req[r].checked = Len(directories) /\ req[r].anyMatch
       \/ req[r].scan = "path"

\* the directory the outputs delivered to request r name: the probes that
\* print a match print one in BaseA, the scan prints one in BaseB first
ResolvedDir(r) == IF req[r].anyMatch THEN BaseA ELSE BaseB

\* C15: a device request whose locate has succeeded, by a probe or by the
\* scan, has sent the originating peer exactly one fileFound carrying the
\* resolved directory, and after it has started exactly one job, on that
\* directory and with the request's device name; it sends no fileNotFound.
C15_FoundThenJob ==
    \A r \in Reqs :
        Located(r) =>
            /\ \E k \in Replies(r, "fileFound") :
                 /\ Replies(r, "fileFound") = {k}
                 /\ log[r][k] = SendEv(req[r].ws, "fileFound", ResolvedDir(r))
                 /\ \E j \in Jobs(r) :
                      /\ Jobs(r) = {j}
                      /\ k < j
                      /\ log[r][j] = JobEv(ResolvedDir(r), DevD1)
            /\ Replies(r, "fileNotFound") = {}
            /\ req[r].baseDir = ResolvedDir(r)
            /\ req[r].deviceName = DevD1

C15_Witness ==
    \E r, r2 \in Reqs :
        /\ Located(r) /\ req[r].anyMatch /\ req[r].pc = "sent"
        /\ Located(r2) /\ req[r2].scan = "path" /\ req[r2].baseDir = BaseB
        /\ Cardinality(Replies(r2, "fileFound")) = 1

\* every event of a broadcast in pipeline r's log, delivered or not
Sends(r) == { k \in DOMAIN log[r] : log[r][k].e = "zip" }

\* C16: the output file of a job is read back and broadcast only once the
\* job has added its entries, called finalize, seen finalize complete and
\* had its output closed; a job that has not come that far, and a job whose
\* enumeration threw, has read and broadcast nothing.
C16_ReadAfterFinalize ==
    \A r \in Reqs :
        /\ req[r].closed =>
             /\ req[r].settled = "resolved" /\ req[r].written
             /\ Jobs(r) # {}
             /\ req[r].entries = ZipEntries(tree, req[r].baseDir, req[r].deviceName)
        /\ Sends(r) # {} => req[r].closed
        /\ req[r].settled \in {"none", "pending", "threw", "rejected"} =>
             ~req[r].closed /\ Sends(r) = {}

C16_Witness ==
    \E r, r2 \in Reqs :
        /\ req[r].closed /\ Zips(r) # {} /\ req[r].entries # {}
        /\ req[r2].settled = "threw" /\ Jobs(r2) # {} /\ Sends(r2) = {}

\* the file that holds the archive job r built, and nothing else
ArchiveOf(r) == [by |-> r, entries |-> req[r].entries, over |-> 0]

\* no other job runs, or has run, on the base directory of job r
AloneOnDir(r) ==
    \A r2 \in Reqs \ {r} : req[r2].baseDir # req[r].baseDir

\* C17: jobs on different base directories do not touch each other's output:
\* a job writes the file of its own base directory only, that file holds
\* the archive the job built once it has finalized, and what the job
\* broadcasts when its output closes is that archive.
C17_DistinctDirsIndependent ==
    \A r \in Reqs :
        /\ \A b \in DOMAIN disk : disk[b].by = r => b = req[r].baseDir
        /\ (AloneOnDir(r) /\ req[r].written) => disk[req[r].baseDir] = ArchiveOf(r)
        /\ (AloneOnDir(r) /\ req[r].closed) =>
             \A k \in Sends(r) : log[r][k].arg = ArchiveOf(r)

C17_Witness ==
    /\ req[1].kind = "filePath" /\ req[1].pc = "finalizing" /\ req[1].written
    /\ req[2].closed /\ Zips(2) # {}
    /\ req[2].baseDir # req[1].baseDir
    /\ \A k \in Sends(2) : log[2][k].arg = ArchiveOf(2)
    /\ disk[req[1].baseDir] = ArchiveOf(1)

\* C18: when two jobs on the same base directory have both completed, the
\* file filtered-archive.zip of that directory is the archive of the job
\* that finalized last, and nothing else.
C18_LastFinalizeWins ==
    \A r, r2 \in Reqs :
        (/\ r # r2
         /\ req[r].pc = "sent" /\ req[r2].pc = "sent"
         /\ req[r].baseDir = req[r2].baseDir) =>
            LET f == disk[req[r].baseDir]
            IN  f.by \in {r, r2} /\ f = ArchiveOf(f.by)

\* C19: in the step that broadcasts an archive, a write that fails for one
\* open peer leaves the broadcast going: that peer gets nothing, and the
\* payload is still sent, once, to every other peer that is open, those
\* after the failing peer in the order of the loop included.
C19_FailedWriteSkipsPeer ==
    [][\A r \in Reqs :
         (~req[r].closed /\ req'[r].closed) =>
            LET new == Gained(r)
            IN  \A f \in Peers :
                  (\E k \in DOMAIN new : new[k].to = f /\ new[k].type = "failed") =>
                     /\ \A k \in DOMAIN new : new[k].to = f => new[k].type = "failed"
                     /\ \A p \in Peers \ {f} :
                          readyState[p] = "OPEN" =>
                             Cardinality({ k \in DOMAIN new :
                                 /\ new[k].to = p /\ new[k].e = "zip"
                                 /\ new[k].arg = disk[req[r].baseDir] }) = 1]_vars

C19_Witness ==
    \E r \in Reqs : \E k \in DOMAIN log[r] :
        /\ req[r].closed
        /\ k < Len(log[r])
        /\ log[r][k].e = "zip" /\ log[r][k].type = "failed" /\ log[r][k].to = 1
        /\ log[r][k + 1] = ZipEv(2, log[r][k].arg)

\* C20: a direct-path request is sent its success status only after the
\* archive of its job has been broadcast: whenever the success status has
\* been sent, the output of the job has closed and its broadcast has run.
C20_SuccessAfterBroadcast ==
    \A r \in Reqs :
        (req[r].kind = "filePath" /\ Replies(r, "success") # {}) =>
            /\ req[r].closed
            /\ \A k \in Replies(r, "success") : \A j \in Sends(r) : j < k

(* FairSpec *)

Outcomes == {"success", "error", "fileFound", "fileNotFound"}

HasOutcome(r) ==
    \E k \in DOMAIN log[r] :
        /\ log[r][k].e = "send"
        /\ log[r][k].type \in Outcomes
        /\ log[r][k].to = req[r].ws

\* C10: when every probe, scan and finalize completes, a direct-path message
\* and a device request with a non-empty name each lead to an outcome
\* message (success, error, fileFound or fileNotFound) to the originating
\* peer.
C10_OutcomeEventually ==
    \A r \in Reqs : (req[r].kind \in {"filePath", "device"}) ~> HasOutcome(r)

C10_Witness ==
    \E r, r2 \in Reqs :
        /\ req[r].kind = "filePath" /\ HasOutcome(r)
        /\ req[r2].kind = "device" /\ HasOutcome(r2)

====
